---- MODULE Spec2Model ----
(***************************************************************************)
(* Model of package ginmetrics (src/ginmetrics/types.go): the Monitor      *)
(* singleton, its configuration setters, the metric registry (AddMetric,   *)
(* GetMetric) with the per-kind handlers, and the prefix/suffix setters    *)
(* that rewrite the package-level built-in metric name variables.          *)
(*                                                                         *)
(* Conventions.                                                            *)
(*  - Go strings are TLA+ strings; an error value is the text produced by  *)
(*    errors.Errorf, and the nil error is the value NoErr.                 *)
(*  - float64 bucket bounds are written in tenths (0.1 is 1, 1.2 is 12).   *)
(*  - A *Monitor is an index into heap (0 is the nil pointer).             *)
(*  - The default Prometheus registerer is the set of metric names it      *)
(*    holds; MustRegister panics when it is handed a name it already has.  *)
(*  - call and ret record the last API call and what it returned.          *)
(***************************************************************************)
EXTENDS Integers, Sequences, FiniteSets, TLC

VARIABLES
    monitor,     \* package variable monitor *Monitor (0 = nil)
    heap,        \* the Monitor objects allocated so far, by address
    exporter,    \* names held by the default Prometheus registerer
    names,       \* the seven built-in metric name variables
    names0,      \* history: the values of names at program start
    affixLog,    \* history: the SetMetricPrefix/SetMetricSuffix calls made
    call,        \* history: the last API call and its arguments
    ret          \* history: what the last API call returned

vars == <<monitor, heap, exporter, names, names0, affixLog, call, ret>>

----------------------------------------------------------------------------
(* Bounds of the model *)

\* number of metric names (besides "" and the exporter's own) callers use
MaxNames == 2
\* number of SetMetricPrefix/SetMetricSuffix calls in one behaviour
MaxAffix == 2

NamePool == <<"http_requests", "req_latency", "queue_depth", "cache_hits">>

\* names some other part of the process already registered with the
\* default registerer (the Go runtime collector registers itself there)
ExternalNames == {"go_goroutines"}

MetricNames == {""} \cup ExternalNames \cup {NamePool[i] : i \in 1..MaxNames}

----------------------------------------------------------------------------
(* MetricType and the package constants *)

None == 0
Counter == 1
Gauge == 2
Histogram == 3
Summary == 4

\* MetricType is an int: callers can pass values outside the enumeration
MetricTypeValues == -1..5

defaultMetricPath == "/debug/metrics"
defaultSlowTime == 5
defaultExcludePaths == <<>>
defaultDuration == <<1, 3, 12, 50, 100>>

NilPtr == 0
NoErr == "<nil>"
NilVec == [kind |-> "nil", Name |-> "", Help |-> "", Labels |-> <<>>]

\* &Metric{}: every field at its zero value
ZeroMetric ==
    [Type |-> None, Name |-> "", Description |-> "", Labels |-> <<>>,
     Buckets |-> <<>>, Objectives |-> <<>>, vec |-> NilVec]

\* fmt's %d for the integers the model uses
RECURSIVE FormatD(_)
FormatD(n) ==
    IF n < 0 THEN "-" \o FormatD(-n)
    ELSE IF n < 10 THEN
        CASE n = 0 -> "0" [] n = 1 -> "1" [] n = 2 -> "2" [] n = 3 -> "3"
          [] n = 4 -> "4" [] n = 5 -> "5" [] n = 6 -> "6" [] n = 7 -> "7"
          [] n = 8 -> "8" [] n = 9 -> "9"
    ELSE FormatD(n \div 10) \o FormatD(n % 10)

ErrExisted(name) == "metric '" \o name \o "' is existed"
ErrEmptyName == "metric name cannot be empty."
ErrTypeNotExisted(t) == "metric type '" \o FormatD(t) \o "' not existed."
ErrLoseBucket(name) ==
    "metric '" \o name \o "' is histogram type, cannot lose bucket param."
ErrLoseObjectives(name) ==
    "metric '" \o name \o "' is summary type, cannot lose objectives param."

----------------------------------------------------------------------------
(* Per-kind handlers: each returns the error and the metric as it leaves   *)
(* it (the handler writes metric.vec through the pointer it is given).     *)

NewVec(kind, metric) ==
    [kind |-> kind, Name |-> metric.Name, Help |-> metric.Description,
     Labels |-> metric.Labels]

counterHandler(metric) ==
    [err |-> NoErr,
     metric |-> [metric EXCEPT !.vec = NewVec("CounterVec", metric)]]

gaugeHandler(metric) ==
    [err |-> NoErr,
     metric |-> [metric EXCEPT !.vec = NewVec("GaugeVec", metric)]]

\* variant: the bucket check of histogramHandler left out
histogramHandler_NoBucketCheck(metric) ==
    [err |-> NoErr,
     metric |-> [metric EXCEPT !.vec = NewVec("HistogramVec", metric)]]

histogramHandler(metric) ==
    IF Len(metric.Buckets) = 0
    THEN [err |-> ErrLoseBucket(metric.Name), metric |-> metric]
    ELSE [err |-> NoErr,
          metric |-> [metric EXCEPT !.vec = NewVec("HistogramVec", metric)]]

summaryHandler(metric) ==
    IF Cardinality(DOMAIN metric.Objectives) = 0
    THEN [err |-> ErrLoseObjectives(metric.Name), metric |-> metric]
    ELSE [err |-> NoErr,
          metric |-> [metric EXCEPT !.vec = NewVec("SummaryVec", metric)]]

\* the keys of the promTypeHandler map, and the call of the function
\* stored under a key
promTypeHandlerKeys == {Counter, Gauge, Histogram, Summary}

promTypeHandler(t, metric) ==
    CASE t = Counter -> counterHandler(metric)
      [] t = Gauge -> gaugeHandler(metric)
      [] t = Histogram -> histogramHandler(metric)
      [] t = Summary -> summaryHandler(metric)

----------------------------------------------------------------------------
(* The registry *)

\* prometheus.MustRegister(vec) on the default registerer holding exp
MustRegister(exp, vec) ==
    IF vec.Name \in exp
    THEN [panicked |-> TRUE, exporter |-> exp]
    ELSE [panicked |-> FALSE, exporter |-> exp \cup {vec.Name}]

\* variant: AddMetric without the check for an existing name
AddMetricResult_NoExistCheck(mon, exp, metric) ==
    LET unchanged(err, mt) ==
            [err |-> err, panicked |-> FALSE, metrics |-> mon.metrics,
             exporter |-> exp, metric |-> mt]
    IN
    IF metric.Name = ""
    THEN unchanged(ErrEmptyName, metric)
    ELSE IF metric.Type \in promTypeHandlerKeys
    THEN LET h == promTypeHandler(metric.Type, metric)
         IN IF h.err = NoErr
            THEN LET r == MustRegister(exp, h.metric.vec)
                 IN IF r.panicked
                    THEN [err |-> NoErr, panicked |-> TRUE,
                          metrics |-> mon.metrics, exporter |-> r.exporter,
                          metric |-> h.metric]
                    ELSE [err |-> NoErr, panicked |-> FALSE,
                          metrics |-> (metric.Name :> h.metric) @@ mon.metrics,
                          exporter |-> r.exporter, metric |-> h.metric]
            ELSE unchanged(ErrTypeNotExisted(metric.Type), h.metric)
    ELSE unchanged(ErrTypeNotExisted(metric.Type), metric)

\* variant: AddMetric storing the metric before it runs the kind's handler
AddMetricResult_StoreEarly(mon, exp, metric) ==
    LET stored == (metric.Name :> metric) @@ mon.metrics
        unchanged(err, mt) ==
            [err |-> err, panicked |-> FALSE, metrics |-> mon.metrics,
             exporter |-> exp, metric |-> mt]
    IN
    IF metric.Name \in DOMAIN mon.metrics
    THEN unchanged(ErrExisted(metric.Name), metric)
    ELSE IF metric.Name = ""
    THEN unchanged(ErrEmptyName, metric)
    ELSE IF metric.Type \in promTypeHandlerKeys
    THEN LET h == promTypeHandler(metric.Type, metric)
         IN IF h.err = NoErr
            THEN LET r == MustRegister(exp, h.metric.vec)
                 IN IF r.panicked
                    THEN [err |-> NoErr, panicked |-> TRUE,
                          metrics |-> mon.metrics, exporter |-> r.exporter,
                          metric |-> h.metric]
                    ELSE [err |-> NoErr, panicked |-> FALSE,
                          metrics |-> (metric.Name :> h.metric) @@ mon.metrics,
                          exporter |-> r.exporter, metric |-> h.metric]
            ELSE [err |-> ErrTypeNotExisted(metric.Type), panicked |-> FALSE,
                  metrics |-> stored, exporter |-> exp, metric |-> h.metric]
    ELSE unchanged(ErrTypeNotExisted(metric.Type), metric)

\* variant: AddMetric looking the kind up before it looks the name up
AddMetricResult_TypeFirst(mon, exp, metric) ==
    LET unchanged(err, mt) ==
            [err |-> err, panicked |-> FALSE, metrics |-> mon.metrics,
             exporter |-> exp, metric |-> mt]
    IN
    IF metric.Type \notin promTypeHandlerKeys
    THEN unchanged(ErrTypeNotExisted(metric.Type), metric)
    ELSE IF metric.Name \in DOMAIN mon.metrics
    THEN unchanged(ErrExisted(metric.Name), metric)
    ELSE IF metric.Name = ""
    THEN unchanged(ErrEmptyName, metric)
    ELSE LET h == promTypeHandler(metric.Type, metric)
         IN IF h.err = NoErr
            THEN LET r == MustRegister(exp, h.metric.vec)
                 IN IF r.panicked
                    THEN [err |-> NoErr, panicked |-> TRUE,
                          metrics |-> mon.metrics, exporter |-> r.exporter,
                          metric |-> h.metric]
                    ELSE [err |-> NoErr, panicked |-> FALSE,
                          metrics |-> (metric.Name :> h.metric) @@ mon.metrics,
                          exporter |-> r.exporter, metric |-> h.metric]
            ELSE unchanged(ErrTypeNotExisted(metric.Type), h.metric)

\* variant: AddMetric storing the metric before it registers the collector
AddMetricResult_StoreBeforeRegister(mon, exp, metric) ==
    LET unchanged(err, mt) ==
            [err |-> err, panicked |-> FALSE, metrics |-> mon.metrics,
             exporter |-> exp, metric |-> mt]
    IN
    IF metric.Name \in DOMAIN mon.metrics
    THEN unchanged(ErrExisted(metric.Name), metric)
    ELSE IF metric.Name = ""
    THEN unchanged(ErrEmptyName, metric)
    ELSE IF metric.Type \in promTypeHandlerKeys
    THEN LET h == promTypeHandler(metric.Type, metric)
         IN IF h.err = NoErr
            THEN LET r == MustRegister(exp, h.metric.vec)
                 IN [err |-> NoErr, panicked |-> r.panicked,
                     metrics |-> (metric.Name :> h.metric) @@ mon.metrics,
                     exporter |-> r.exporter, metric |-> h.metric]
            ELSE unchanged(ErrTypeNotExisted(metric.Type), h.metric)
    ELSE unchanged(ErrTypeNotExisted(metric.Type), metric)

\* m.AddMetric(metric) on Monitor object mon with the registerer holding
\* exp: the error returned, whether the call panicked, and the registry,
\* the registerer and the caller's metric as the call leaves them
AddMetricResult(mon, exp, metric) ==
    LET unchanged(err, mt) ==
            [err |-> err, panicked |-> FALSE, metrics |-> mon.metrics,
             exporter |-> exp, metric |-> mt]
    IN
    IF metric.Name \in DOMAIN mon.metrics
    THEN unchanged(ErrExisted(metric.Name), metric)
    ELSE IF metric.Name = ""
    THEN unchanged(ErrEmptyName, metric)
    ELSE IF metric.Type \in promTypeHandlerKeys
    THEN LET h == promTypeHandler(metric.Type, metric)
         IN IF h.err = NoErr
            THEN LET r == MustRegister(exp, h.metric.vec)
                 IN IF r.panicked
                    THEN [err |-> NoErr, panicked |-> TRUE,
                          metrics |-> mon.metrics, exporter |-> r.exporter,
                          metric |-> h.metric]
                    ELSE [err |-> NoErr, panicked |-> FALSE,
                          metrics |-> (metric.Name :> h.metric) @@ mon.metrics,
                          exporter |-> r.exporter, metric |-> h.metric]
            ELSE unchanged(ErrTypeNotExisted(metric.Type), h.metric)
    ELSE unchanged(ErrTypeNotExisted(metric.Type), metric)

\* variant: GetMetric building the missing metric from the name it was asked
GetMetricResult_NamedZero(mon, name) ==
    IF name \in DOMAIN mon.metrics
    THEN mon.metrics[name]
    ELSE [ZeroMetric EXCEPT !.Name = name]

\* variant: GetMetric returning a fresh Metric whatever the registry holds
GetMetricResult_AlwaysZero(mon, name) == ZeroMetric

\* m.GetMetric(name)
GetMetricResult(mon, name) ==
    IF name \in DOMAIN mon.metrics THEN mon.metrics[name] ELSE ZeroMetric

\* the Monitor GetMonitor builds when the package variable is nil
NewMonitor ==
    [metricPath |-> defaultMetricPath, slowTime |-> defaultSlowTime,
     excludePaths |-> defaultExcludePaths, reqDuration |-> defaultDuration,
     metrics |-> <<>>, metadata |-> <<>>]

\* variant: GetMonitor without the nil check
GetMonitorResult_AlwaysNew(ptr, hp) ==
    [monitor |-> Len(hp) + 1, heap |-> Append(hp, NewMonitor)]

\* GetMonitor(): the package variable and the heap after the call
GetMonitorResult(ptr, hp) ==
    IF ptr = NilPtr
    THEN [monitor |-> Len(hp) + 1, heap |-> Append(hp, NewMonitor)]
    ELSE [monitor |-> ptr, heap |-> hp]

----------------------------------------------------------------------------
(* Configuration setters: the Monitor object after the call *)

SetMetricPathResult(mon, path) == [mon EXCEPT !.metricPath = path]

SetExcludePathsResult(mon, paths) == [mon EXCEPT !.excludePaths = paths]

SetSlowTimeResult(mon, slowTime) == [mon EXCEPT !.slowTime = slowTime]

SetDurationResult(mon, duration) == [mon EXCEPT !.reqDuration = duration]

\* variant: SetMetricPrefix prepending to six of the seven variables and
\* appending to metricSlowRequest
SetMetricPrefixResult_LastAppended(nm, prefix) ==
    [metricRequestTotal |-> prefix \o nm.metricRequestTotal,
     metricRequestUVTotal |-> prefix \o nm.metricRequestUVTotal,
     metricURIRequestTotal |-> prefix \o nm.metricURIRequestTotal,
     metricRequestBody |-> prefix \o nm.metricRequestBody,
     metricResponseBody |-> prefix \o nm.metricResponseBody,
     metricRequestDuration |-> prefix \o nm.metricRequestDuration,
     metricSlowRequest |-> nm.metricSlowRequest \o prefix]

\* SetMetricPrefix(prefix): the seven name variables after the call
SetMetricPrefixResult(nm, prefix) ==
    [metricRequestTotal |-> prefix \o nm.metricRequestTotal,
     metricRequestUVTotal |-> prefix \o nm.metricRequestUVTotal,
     metricURIRequestTotal |-> prefix \o nm.metricURIRequestTotal,
     metricRequestBody |-> prefix \o nm.metricRequestBody,
     metricResponseBody |-> prefix \o nm.metricResponseBody,
     metricRequestDuration |-> prefix \o nm.metricRequestDuration,
     metricSlowRequest |-> prefix \o nm.metricSlowRequest]

\* SetMetricSuffix(suffix): the seven name variables after the call
SetMetricSuffixResult(nm, suffix) ==
    [metricRequestTotal |-> nm.metricRequestTotal \o suffix,
     metricRequestUVTotal |-> nm.metricRequestUVTotal \o suffix,
     metricURIRequestTotal |-> nm.metricURIRequestTotal \o suffix,
     metricRequestBody |-> nm.metricRequestBody \o suffix,
     metricResponseBody |-> nm.metricResponseBody \o suffix,
     metricRequestDuration |-> nm.metricRequestDuration \o suffix,
     metricSlowRequest |-> nm.metricSlowRequest \o suffix]

----------------------------------------------------------------------------
(* Inputs *)

Buckets1 == <<1, 5, 10>>
Objectives1 == (50 :> 5)

\* <<Buckets, Objectives>> of the declarations of kind t: with and without
\* the parameter the kind's handler checks, and for Counter also with
\* parameters the kind does not use
ParamInputs(t) ==
    CASE t = Histogram -> {<<(<<>>), (<<>>)>>, <<Buckets1, (<<>>)>>}
      [] t = Summary -> {<<(<<>>), (<<>>)>>, <<(<<>>), Objectives1>>}
      [] t = Counter -> {<<(<<>>), (<<>>)>>, <<Buckets1, Objectives1>>}
      [] OTHER -> {<<(<<>>), (<<>>)>>}

\* the declarations callers hand to AddMetric: vec is not set yet
Decls ==
    UNION {{[Type |-> t, Name |-> n, Description |-> "help",
             Labels |-> <<"method", "path">>, Buckets |-> p[1],
             Objectives |-> p[2], vec |-> NilVec] :
                n \in MetricNames, p \in ParamInputs(t)} :
           t \in MetricTypeValues}

PathInputs == {"/metrics"}
ExcludePathsInputs == {<<"/ping", "/healthz">>}
SlowTimeInputs == {10}
DurationInputs == {<<5, 10>>}
PrefixInputs == {"", "a", "b"}
SuffixInputs == {"", "_s"}

\* start values of the built-in name variables
StartNames ==
    {[metricRequestTotal |-> "x", metricRequestUVTotal |-> "x",
      metricURIRequestTotal |-> "x", metricRequestBody |-> "x",
      metricResponseBody |-> "x", metricRequestDuration |-> "x",
      metricSlowRequest |-> "x"],
     [metricRequestTotal |-> "gin_request_total",
      metricRequestUVTotal |-> "gin_request_uv_total",
      metricURIRequestTotal |-> "gin_uri_request_total",
      metricRequestBody |-> "gin_request_body_total",
      metricResponseBody |-> "gin_response_body_total",
      metricRequestDuration |-> "gin_request_duration",
      metricSlowRequest |-> "gin_slow_request_total"]}

BuiltinNames == DOMAIN (CHOOSE nm \in StartNames : TRUE)

NoCall == [op |-> "start", m |-> NilPtr, metric |-> ZeroMetric, name |-> ""]
NoRet == [err |-> NoErr, panicked |-> FALSE, metric |-> ZeroMetric,
          ptr |-> NilPtr]

----------------------------------------------------------------------------
(* The program: package initialisation, then one action per API call *)

InitRegistry ==
    /\ monitor = NilPtr
    /\ heap = <<>>
    /\ exporter = ExternalNames
    /\ affixLog = <<>>
    /\ call = NoCall
    /\ ret = NoRet

Init ==
    /\ InitRegistry
    /\ names0 = CHOOSE nm \in StartNames : nm.metricRequestTotal # "x"
    /\ names = names0

\* every start value of the name variables
InitNames ==
    /\ InitRegistry
    /\ names0 \in StartNames
    /\ names = names0

GetMonitor ==
    LET r == GetMonitorResult(monitor, heap)
    IN /\ monitor' = r.monitor
       /\ heap' = r.heap
       /\ call' = [NoCall EXCEPT !.op = "GetMonitor"]
       /\ ret' = [NoRet EXCEPT !.ptr = r.monitor]
       /\ UNCHANGED <<exporter, names, names0, affixLog>>

\* the pointers callers hold: every Monitor GetMonitor has handed out
Receivers == 1..Len(heap)

AddMetric(m, metric) ==
    LET r == AddMetricResult(heap[m], exporter, metric)
    IN /\ heap' = [heap EXCEPT ![m].metrics = r.metrics]
       /\ exporter' = r.exporter
       /\ call' = [NoCall EXCEPT !.op = "AddMetric", !.m = m,
                                 !.metric = metric]
       /\ ret' = [NoRet EXCEPT !.err = r.err, !.panicked = r.panicked,
                               !.metric = r.metric]
       /\ UNCHANGED <<monitor, names, names0, affixLog>>

GetMetric(m, name) ==
    /\ call' = [NoCall EXCEPT !.op = "GetMetric", !.m = m, !.name = name]
    /\ ret' = [NoRet EXCEPT !.metric = GetMetricResult(heap[m], name)]
    /\ UNCHANGED <<monitor, heap, exporter, names, names0, affixLog>>

SetMetricPath(m, path) ==
    /\ heap' = [heap EXCEPT ![m] = SetMetricPathResult(heap[m], path)]
    /\ call' = [NoCall EXCEPT !.op = "SetMetricPath", !.m = m]
    /\ ret' = NoRet
    /\ UNCHANGED <<monitor, exporter, names, names0, affixLog>>

SetExcludePaths(m, paths) ==
    /\ heap' = [heap EXCEPT ![m] = SetExcludePathsResult(heap[m], paths)]
    /\ call' = [NoCall EXCEPT !.op = "SetExcludePaths", !.m = m]
    /\ ret' = NoRet
    /\ UNCHANGED <<monitor, exporter, names, names0, affixLog>>

SetSlowTime(m, slowTime) ==
    /\ heap' = [heap EXCEPT ![m] = SetSlowTimeResult(heap[m], slowTime)]
    /\ call' = [NoCall EXCEPT !.op = "SetSlowTime", !.m = m]
    /\ ret' = NoRet
    /\ UNCHANGED <<monitor, exporter, names, names0, affixLog>>

SetDuration(m, duration) ==
    /\ heap' = [heap EXCEPT ![m] = SetDurationResult(heap[m], duration)]
    /\ call' = [NoCall EXCEPT !.op = "SetDuration", !.m = m]
    /\ ret' = NoRet
    /\ UNCHANGED <<monitor, exporter, names, names0, affixLog>>

SetMetricPrefix(m, prefix) ==
    /\ Len(affixLog) < MaxAffix
    /\ names' = SetMetricPrefixResult(names, prefix)
    /\ affixLog' = Append(affixLog, <<"prefix", prefix>>)
    /\ call' = [NoCall EXCEPT !.op = "SetMetricPrefix", !.m = m]
    /\ ret' = NoRet
    /\ UNCHANGED <<monitor, heap, exporter, names0>>

SetMetricSuffix(m, suffix) ==
    /\ Len(affixLog) < MaxAffix
    /\ names' = SetMetricSuffixResult(names, suffix)
    /\ affixLog' = Append(affixLog, <<"suffix", suffix>>)
    /\ call' = [NoCall EXCEPT !.op = "SetMetricSuffix", !.m = m]
    /\ ret' = NoRet
    /\ UNCHANGED <<monitor, heap, exporter, names0>>

Next ==
    \/ GetMonitor
    \/ \E m \in Receivers, metric \in Decls : AddMetric(m, metric)
    \/ \E m \in Receivers, name \in MetricNames : GetMetric(m, name)
    \/ \E m \in Receivers, path \in PathInputs : SetMetricPath(m, path)
    \/ \E m \in Receivers, paths \in ExcludePathsInputs :
          SetExcludePaths(m, paths)
    \/ \E m \in Receivers, slowTime \in SlowTimeInputs :
          SetSlowTime(m, slowTime)
    \/ \E m \in Receivers, duration \in DurationInputs :
          SetDuration(m, duration)

Spec == Init /\ [][Next]_vars

\* the name setters alone, over every start value and every affix
NextNames ==
    \/ GetMonitor
    \/ \E m \in Receivers, prefix \in PrefixInputs :
          SetMetricPrefix(m, prefix)
    \/ \E m \in Receivers, suffix \in SuffixInputs :
          SetMetricSuffix(m, suffix)

SpecNames == InitNames /\ [][NextNames]_vars

----------------------------------------------------------------------------
(* Properties.  In an action formula the unprimed variables are the state  *)
(* before the call and call', ret' are the call that was made and what it  *)
(* returned.                                                               *)

ConcreteKinds == {Counter, Gauge, Histogram, Summary}

\* the step is the call m.AddMetric(d)
IsAddMetricStep == call'.op = "AddMetric"

\* the declaration fails the check of its kind's handler
LacksKindParam(d) ==
    \/ d.Type = Histogram /\ Len(d.Buckets) = 0
    \/ d.Type = Summary /\ DOMAIN d.Objectives = {}

\* the declaration passes every check AddMetric and the handlers make
\* against the registry reg
PassesChecks(d, reg) ==
    /\ d.Name \notin DOMAIN reg
    /\ d.Name # ""
    /\ d.Type \in ConcreteKinds
    /\ ~LacksKindParam(d)

\* the call returned normally and without an error
Succeeded(r) == r.err = NoErr /\ ~r.panicked

\* C1: AddMetric of a declaration whose Name is already a key of the
\* registry returns the "is existed" error, whatever its Type, Buckets and
\* Objectives, and leaves every registry entry (and the exporter) as it was.
C1_DuplicateNameRejected ==
    [][(IsAddMetricStep
        /\ call'.metric.Name \in DOMAIN heap[call'.m].metrics)
       => /\ ret'.err = ErrExisted(call'.metric.Name)
          /\ ~ret'.panicked
          /\ heap' = heap
          /\ exporter' = exporter]_vars

\* C1 witness: a duplicate declaration of kind None was rejected while the
\* registry held two entries.
C1_Witness ==
    /\ call.op = "AddMetric"
    /\ call.metric.Type = None
    /\ ret.err = ErrExisted(call.metric.Name)
    /\ Cardinality(DOMAIN heap[call.m].metrics) = 2

\* C2: for a non-empty name that is not registered, a Histogram without
\* Buckets is rejected with the handler's "cannot lose bucket param" error
\* and a Summary without Objectives with the handler's "cannot lose
\* objectives param" error, and the metric is not added.
C2_HandlerErrorReturned ==
    [][(IsAddMetricStep
        /\ call'.metric.Name # ""
        /\ call'.metric.Name \notin DOMAIN heap[call'.m].metrics
        /\ LacksKindParam(call'.metric))
       => /\ call'.metric.Type = Histogram
                => ret'.err = ErrLoseBucket(call'.metric.Name)
          /\ call'.metric.Type = Summary
                => ret'.err = ErrLoseObjectives(call'.metric.Name)
          /\ call'.metric.Name \notin DOMAIN heap'[call'.m].metrics]_vars

\* the step retries, with Buckets, the Histogram declaration that the
\* previous call rejected for its missing Buckets
IsBucketRetryStep ==
    /\ call.op = "AddMetric"
    /\ call.metric.Type = Histogram
    /\ Len(call.metric.Buckets) = 0
    /\ ret.err \notin {NoErr, ErrExisted(call.metric.Name), ErrEmptyName}
    /\ IsAddMetricStep
    /\ call'.m = call.m
    /\ call'.metric = [call.metric EXCEPT !.Buckets = Buckets1]

RetrySucceeds ==
    /\ Succeeded(ret')
    /\ call'.metric.Name \in DOMAIN heap'[call'.m].metrics

\* C3 as stated: every AddMetric that returns an error leaves the registry
\* and the exporter as they were, and the retry with Buckets of a Histogram
\* rejected for missing Buckets succeeds.
C3_RejectedNameStaysAvailable ==
    [][/\ (IsAddMetricStep /\ ret'.err # NoErr)
            => (heap' = heap /\ exporter' = exporter)
       /\ IsBucketRetryStep => RetrySucceeds]_vars

\* C3 amended: every AddMetric that returns an error leaves the registry
\* and the exporter as they were, and the retry with Buckets of a Histogram
\* rejected for missing Buckets succeeds unless the exporter already holds
\* the name, in which case the retry panics.
C3_RejectedNameStaysAvailableUnlessExported ==
    [][/\ (IsAddMetricStep /\ ret'.err # NoErr)
            => (heap' = heap /\ exporter' = exporter)
       /\ (IsBucketRetryStep /\ call.metric.Name \notin exporter)
            => RetrySucceeds
       /\ (IsBucketRetryStep /\ call.metric.Name \in exporter)
            => ret'.panicked]_vars

\* C3 witness: a Histogram without Buckets was rejected under a non-empty
\* name that neither the registry nor the exporter holds, and the registry
\* still holds the one entry it held before.
C3_Witness ==
    /\ call.op = "AddMetric"
    /\ call.metric.Type = Histogram
    /\ Len(call.metric.Buckets) = 0
    /\ ret.err \notin {NoErr, ErrExisted(call.metric.Name), ErrEmptyName}
    /\ call.metric.Name \notin DOMAIN heap[call.m].metrics
    /\ call.metric.Name \notin exporter
    /\ Cardinality(DOMAIN heap[call.m].metrics) = 1

\* the step adds a Counter or Gauge with a non-empty unregistered name
IsFreshCounterOrGaugeStep ==
    /\ IsAddMetricStep
    /\ call'.metric.Type \in {Counter, Gauge}
    /\ call'.metric.Name # ""
    /\ call'.metric.Name \notin DOMAIN heap[call'.m].metrics

AddedAndFound ==
    /\ Succeeded(ret')
    /\ GetMetricResult(heap'[call'.m], call'.metric.Name).Type
            = call'.metric.Type
    /\ GetMetricResult(heap'[call'.m], call'.metric.Name).Name
            = call'.metric.Name

\* no call removes or replaces a registry entry, and GetMetric of a
\* registered name returns the entry stored under it
EntriesKept ==
    /\ \A m \in 1..Len(heap) : \A n \in DOMAIN heap[m].metrics :
          /\ n \in DOMAIN heap'[m].metrics
          /\ heap'[m].metrics[n] = heap[m].metrics[n]
    /\ (call'.op = "GetMetric"
        /\ call'.name \in DOMAIN heap[call'.m].metrics)
          => /\ ret'.metric = heap[call'.m].metrics[call'.name]
             /\ ret'.metric.Name = call'.name

\* C4 as stated: AddMetric of a Counter or Gauge with a non-empty name not
\* in the registry succeeds and GetMetric then returns a Metric of that
\* Type and Name, and later calls keep it so.
C4_CounterGaugeAddedAndFound ==
    [][/\ IsFreshCounterOrGaugeStep => AddedAndFound
       /\ EntriesKept]_vars

\* C4 amended: AddMetric of a Counter or Gauge with a non-empty name that
\* is neither in the registry nor held by the exporter succeeds and
\* GetMetric then returns a Metric of that Type and Name; no later call
\* removes or replaces the entry, and GetMetric keeps returning it.
C4_CounterGaugeAddedAndFoundUnlessExported ==
    [][/\ (IsFreshCounterOrGaugeStep /\ call'.metric.Name \notin exporter)
            => AddedAndFound
       /\ EntriesKept]_vars

\* C4 witness: GetMetric returned a registered Gauge after a configuration
\* setter had run and a second metric had been added.
C4_Witness ==
    /\ call.op = "GetMetric"
    /\ ret.metric.Type = Gauge
    /\ ret.metric.Name = call.name
    /\ call.name # ""
    /\ Cardinality(DOMAIN heap[call.m].metrics) = 2
    /\ heap[call.m].slowTime # defaultSlowTime

\* C5: GetMetric of a name that is not in the registry returns the zero
\* Metric (Type None, Name "", no collector) and no error, and GetMetric
\* never changes the registry, the exporter or the Monitor.
C5_GetMetricSentinel ==
    [][call'.op = "GetMetric"
       => /\ heap' = heap
          /\ exporter' = exporter
          /\ monitor' = monitor
          /\ call'.name \notin DOMAIN heap[call'.m].metrics
                => /\ ret'.metric.Type = None
                   /\ ret'.metric.Name = ""
                   /\ ret'.metric.vec = NilVec
                   /\ ret'.metric = ZeroMetric
                   /\ Succeeded(ret')]_vars

\* C5 witness: GetMetric of a non-empty name that is not registered
\* returned the zero Metric while the registry held another entry.
C5_Witness ==
    /\ call.op = "GetMetric"
    /\ call.name # ""
    /\ call.name \notin DOMAIN heap[call.m].metrics
    /\ heap[call.m].metrics # <<>>
    /\ ret.metric = ZeroMetric

\* C6: AddMetric reports the first failing check in the order name already
\* present, name empty, kind not one of the four concrete kinds,
\* kind-specific validation: the kind's own check is reached, and the call
\* can succeed, only when the three earlier checks pass.
C6_ValidationOrder ==
    [][IsAddMetricStep
       => LET d == call'.metric
              reg == heap[call'.m].metrics
          IN /\ d.Name \in DOMAIN reg => ret'.err = ErrExisted(d.Name)
             /\ (d.Name \notin DOMAIN reg /\ d.Name = "")
                   => ret'.err = ErrEmptyName
             /\ (d.Name \notin DOMAIN reg /\ d.Name # ""
                 /\ d.Type \notin ConcreteKinds)
                   => ret'.err = ErrTypeNotExisted(d.Type)
             /\ (d.Name \notin DOMAIN reg /\ d.Name # ""
                 /\ d.Type \in ConcreteKinds /\ LacksKindParam(d))
                   => ret'.err \notin
                        {NoErr, ErrExisted(d.Name), ErrEmptyName}
             /\ ret'.err = NoErr <=> PassesChecks(d, reg)]_vars

\* C6 witness: a declaration with an empty name, kind Histogram and no
\* Buckets was rejected for its empty name.
C6_Witness ==
    /\ call.op = "AddMetric"
    /\ call.metric.Name = ""
    /\ call.metric.Type = Histogram
    /\ Len(call.metric.Buckets) = 0
    /\ ret.err = ErrEmptyName

\* C7: one Monitor exists per process.  The first GetMonitor builds it with
\* metricPath "/debug/metrics", slowTime 5, no excludePaths, reqDuration
\* {0.1, 0.3, 1.2, 5, 10} and empty metrics and metadata; every later
\* GetMonitor returns the same object with its configuration and metrics
\* as the Monitor's callers left them.
C7_Singleton ==
    [][/\ Len(heap') <= 1
       /\ monitor # NilPtr => monitor' = monitor
       /\ (call'.op = "GetMonitor" /\ monitor = NilPtr)
            => /\ ret'.ptr = monitor' /\ monitor' # NilPtr
               /\ heap'[ret'.ptr] =
                    [metricPath |-> "/debug/metrics", slowTime |-> 5,
                     excludePaths |-> <<>>,
                     reqDuration |-> <<1, 3, 12, 50, 100>>,
                     metrics |-> <<>>, metadata |-> <<>>]
       /\ (call'.op = "GetMonitor" /\ monitor # NilPtr)
            => /\ ret'.ptr = monitor
               /\ heap' = heap]_vars

\* C7 witness: GetMonitor returned the Monitor after its path had been set
\* and a metric had been added to it.
C7_Witness ==
    /\ call.op = "GetMonitor"
    /\ ret.ptr = monitor
    /\ heap[ret.ptr].metricPath # "/debug/metrics"
    /\ heap[ret.ptr].metrics # <<>>

\* C8: when the exporter rejects the collector of a declaration that passed
\* every check of AddMetric, the call panics and the registry is unchanged:
\* GetMetric of that name still returns the zero Metric.
C8_ExporterRejectionStoresNothing ==
    [][(IsAddMetricStep
        /\ PassesChecks(call'.metric, heap[call'.m].metrics)
        /\ call'.metric.Name \in exporter)
       => /\ ret'.panicked
          /\ heap' = heap
          /\ exporter' = exporter
          /\ call'.metric.Name \notin DOMAIN heap'[call'.m].metrics
          /\ GetMetricResult(heap'[call'.m], call'.metric.Name)
                = ZeroMetric]_vars

\* C8 witness: an AddMetric call panicked in MustRegister.
C8_Witness ==
    /\ call.op = "AddMetric"
    /\ ret.panicked
    /\ call.metric.Name \in exporter
    /\ call.metric.Name \notin DOMAIN heap[call.m].metrics

\* C9: SetMetricPrefix prepends to the current value of each of the seven
\* name variables: after SetMetricPrefix(a) then SetMetricPrefix(b) every
\* variable is b + a + its start value, so the same non-empty prefix given
\* twice appears twice.
C9_PrefixCompounds ==
    \A a \in PrefixInputs, b \in PrefixInputs :
        affixLog = <<(<<"prefix", a>>), (<<"prefix", b>>)>>
        => \A c \in BuiltinNames :
              /\ names[c] = b \o a \o names0[c]
              /\ (a = b /\ a # "") => names[c] # a \o names0[c]

\* C9 witness: SetMetricPrefix("a") then SetMetricPrefix("b") were called.
C9_Witness ==
    /\ affixLog = <<(<<"prefix", "a">>), (<<"prefix", "b">>)>>
    /\ names.metricSlowRequest = "ba" \o names0.metricSlowRequest

\* C10: every registry entry is stored under its own Name, which is not
\* empty; its Type is one of the four concrete kinds; its collector is set
\* and of that kind; the exporter holds its name; a Histogram entry has
\* Buckets and a Summary entry has Objectives.
C10_RegistryInvariant ==
    \A m \in 1..Len(heap) : \A n \in DOMAIN heap[m].metrics :
        LET e == heap[m].metrics[n]
        IN /\ e.Name = n
           /\ n # ""
           /\ e.Type \in ConcreteKinds
           /\ e.vec # NilVec
           /\ e.vec.Name = n
           /\ e.vec.kind =
                (CASE e.Type = Counter -> "CounterVec"
                   [] e.Type = Gauge -> "GaugeVec"
                   [] e.Type = Histogram -> "HistogramVec"
                   [] e.Type = Summary -> "SummaryVec")
           /\ n \in exporter
           /\ e.Type = Histogram => Len(e.Buckets) > 0
           /\ e.Type = Summary => DOMAIN e.Objectives # {}

\* C10 witness: the registry holds a Histogram and a Summary.
C10_Witness ==
    \E m \in 1..Len(heap) :
        \E h \in DOMAIN heap[m].metrics, q \in DOMAIN heap[m].metrics :
            /\ heap[m].metrics[h].Type = Histogram
            /\ heap[m].metrics[q].Type = Summary

====
